---- MODULE Spec2Model ----
(***************************************************************************)
(* A model of the noentiendo 6502 core: the register file, the bus, the    *)
(* addressing-mode resolver (fetch.rs), the opcode dispatcher (execute.rs) *)
(* and the address-space router (memory/branch.rs, memory/null.rs).        *)
(*                                                                         *)
(* Machine integers keep their width.  An unsigned add or subtract written *)
(* with the plain + and - operators in the Rust source overflows as the    *)
(* build decides: it panics when the crate is built with overflow checks   *)
(* (the debug profile) and wraps otherwise (the release profile).  The     *)
(* field overflow_checks of the machine state is that choice, made once    *)
(* per run.                                                                *)
(***************************************************************************)
EXTENDS Integers, Sequences, FiniteSets, TLC

VARIABLES
  accumulator,      \* Registers.accumulator : u8
  x_index,          \* Registers.x_index : u8
  y_index,          \* Registers.y_index : u8
  stack_pointer,    \* Registers.stack_pointer : u8
  program_counter,  \* Registers.program_counter : u16
  status_register,  \* Registers.status_register : u8
  memory,           \* System.memory, the bytes that are not zero
  memory_resets,    \* the number of reset() calls System.memory has received
  overflow_checks,  \* the build profile: TRUE when integer overflow panics
  result,           \* what the last call returned: "none", "Ok", "Err", "panic"
  opcode,           \* the opcode the last call dispatched, -1 when it was no tick
  entry,            \* the machine state as execute was entered by the last tick
  placed,           \* TRUE when the host placed an instruction not yet executed
  steps,            \* the number of driver calls made so far
  last_call,        \* the last driver call: "none", "reset", "tick", "interrupt"
  call,             \* what the last JSR was entered with and left behind
  saved,            \* what the last interrupt entry was entered with and left behind
  mapping,          \* BranchMemory.mapping : Vec<(usize, Box<dyn Memory>)>
  bus               \* the last access made on the router and what it did

cpu_vars == <<accumulator, x_index, y_index, stack_pointer, program_counter,
              status_register, memory, memory_resets, overflow_checks, result,
              opcode, entry, placed, steps, last_call, call, saved>>
bus_vars == <<mapping, bus>>
vars == <<cpu_vars, bus_vars>>

(***************************************************************************)
(* Fixed-width arithmetic.                                                 *)
(***************************************************************************)
Bit(v, k) == (v \div (2^k)) % 2

\* p & q on w-bit operands
BitAnd(p, q, w) ==
  LET f[k \in 0..w] == IF k = w THEN 0 ELSE Bit(p, k) * Bit(q, k) * (2^k) + f[k+1]
  IN f[0]

\* p | q on w-bit operands
BitOr(p, q, w) ==
  LET f[k \in 0..w] ==
        IF k = w THEN 0
        ELSE (IF Bit(p, k) + Bit(q, k) > 0 THEN 2^k ELSE 0) + f[k+1]
  IN f[0]

\* p ^ q on w-bit operands
BitXor(p, q, w) ==
  LET f[k \in 0..w] ==
        IF k = w THEN 0
        ELSE (IF Bit(p, k) # Bit(q, k) THEN 2^k ELSE 0) + f[k+1]
  IN f[0]

\* p << n on a w-bit operand: the bits shifted past the width are dropped
Shl(p, n, w) == (p * (2^n)) % (2^w)

\* p >> n
Shr(p, n) == p \div (2^n)

\* value as i8
AsI8(value) == IF value >= 128 THEN value - 256 ELSE value

(***************************************************************************)
(* The machine state as one value, so that the steps of a handler compose. *)
(***************************************************************************)
Panic(s) == [s EXCEPT !.result = "panic"]
Panicked(s) == s.result = "panic"

\* a handler's intermediate value: the state after it and the value it returned
Ret(s, v) == [s |-> s, v |-> v]

\* continue with F unless the step before panicked
Then(r, F(_, _)) == IF Panicked(r.s) THEN r.s ELSE F(r.s, r.v)
ThenRet(r, F(_, _)) == IF Panicked(r.s) THEN Ret(r.s, 0) ELSE F(r.s, r.v)

\* u8 + u8 written with +
add_u8(s, p, q) ==
  IF p + q > 255 /\ s.overflow_checks THEN Ret(Panic(s), 0) ELSE Ret(s, (p + q) % 256)

\* u8 - u8 written with -
sub_u8(s, p, q) ==
  IF p - q < 0 /\ s.overflow_checks THEN Ret(Panic(s), 0) ELSE Ret(s, (p - q) % 256)

\* u16 + u16 written with +
add_u16(s, p, q) ==
  IF p + q > 65535 /\ s.overflow_checks THEN Ret(Panic(s), 0) ELSE Ret(s, (p + q) % 65536)

(***************************************************************************)
(* Registers and status flags (registers.rs).                              *)
(***************************************************************************)
CARRY == 1
ZERO == 2
INTERRUPT == 4
DECIMAL == 8
BREAK == 16
UNUSED == 32
OVERFLOW == 64
NEGATIVE == 128

status_read(s, flag) == BitAnd(s.status_register, flag, 8) # 0

status_set(s, flag) ==
  [s EXCEPT !.status_register = BitOr(s.status_register, flag, 8)]

status_clear(s, flag) ==
  [s EXCEPT !.status_register = BitAnd(s.status_register, 255 - flag, 8)]

status_write(s, flag, value) ==
  IF value THEN status_set(s, flag) ELSE status_clear(s, flag)

status_set_nz(s, value) ==
  status_write(status_write(s, ZERO, value = 0), NEGATIVE, Bit(value, 7) = 1)

pc_address(s) == s.program_counter

pc_load(s, address) == [s EXCEPT !.program_counter = address]

pc_increment(s) == [s EXCEPT !.program_counter = (s.program_counter + 1) % 65536]

pc_offset(s, offset) ==
  [s EXCEPT !.program_counter = (s.program_counter + offset) % 65536]

\* accumulator <- accumulator + value + Carry
alu_add(s, value) ==
  LET carry == IF status_read(s, CARRY) THEN 1 ELSE 0
      sum == s.accumulator + value + carry
      res == sum % 256
      over == BitAnd(BitAnd(BitXor(s.accumulator, res, 8), BitXor(value, res, 8), 8),
                     128, 8) # 0
      t == status_write(status_write(s, CARRY, sum > 255), OVERFLOW, over)
  IN status_set_nz([t EXCEPT !.accumulator = res], res)

alu_subtract(s, value) == alu_add(s, 255 - value)

alu_compare(s, register, value) ==
  status_set_nz(status_write(s, CARRY, register >= value), (register - value) % 256)

(***************************************************************************)
(* The bus as the driver sees it, and the stack (system.rs).               *)
(***************************************************************************)
MemRead(m, address) == IF address \in DOMAIN m THEN m[address] ELSE 0

MemWrite(m, address, value) ==
  IF value = 0
  THEN [b \in DOMAIN m \ {address} |-> m[b]]
  ELSE [b \in DOMAIN m \cup {address} |-> IF b = address THEN value ELSE m[b]]

read(s, address) == MemRead(s.memory, address)

write(s, address, value) == [s EXCEPT !.memory = MemWrite(s.memory, address, value)]

read_word(s, address) ==
  BitOr(read(s, address), Shl(read(s, (address + 1) % 65536), 8, 16), 16)

STACK_BASE == 256

push(s, value) ==
  [write(s, STACK_BASE + s.stack_pointer, value)
     EXCEPT !.stack_pointer = (s.stack_pointer - 1) % 256]

\* pop: the state after it and the byte pulled
pop(s) ==
  LET t == [s EXCEPT !.stack_pointer = (s.stack_pointer + 1) % 256]
  IN Ret(t, read(t, STACK_BASE + t.stack_pointer))

(***************************************************************************)
(* The addressing-mode resolver (fetch.rs).  Each operator returns the     *)
(* state after the operand bytes were consumed and the value fetched.      *)
(***************************************************************************)
fetch(s) == Ret(pc_increment(s), read(s, pc_address(s)))

fetch_word(s) ==
  LET lo == fetch(s)
      hi == fetch(lo.s)
  IN Ret(hi.s, BitOr(Shl(hi.v, 8, 16), lo.v, 16))

fetch_zero_page(s) ==
  LET address == fetch(s) IN Ret(address.s, read(address.s, address.v))

fetch_zero_page_x(s) ==
  LET address == fetch(s)
  IN ThenRet(add_u8(address.s, address.v, address.s.x_index),
             LAMBDA t, sum: Ret(t, read(t, sum)))

fetch_zero_page_y(s) ==
  LET address == fetch(s)
  IN ThenRet(add_u8(address.s, address.v, address.s.y_index),
             LAMBDA t, sum: Ret(t, read(t, sum)))

fetch_absolute(s) ==
  LET address == fetch_word(s) IN Ret(address.s, read(address.s, address.v))

fetch_absolute_x(s) ==
  LET address == fetch_word(s)
  IN ThenRet(add_u16(address.s, address.v, address.s.x_index),
             LAMBDA t, sum: Ret(t, read(t, sum)))

fetch_absolute_y(s) ==
  LET address == fetch_word(s)
  IN ThenRet(add_u16(address.s, address.v, address.s.y_index),
             LAMBDA t, sum: Ret(t, read(t, sum)))

fetch_indirect_x(s) ==
  LET base == fetch(s)
  IN ThenRet(add_u8(base.s, base.v, base.s.x_index),
             LAMBDA t, address: Ret(t, read(t, read_word(t, address))))

fetch_indirect_y(s) ==
  LET base == fetch(s)
      address == read_word(base.s, base.v)
  IN ThenRet(add_u16(base.s, address, base.s.y_index),
             LAMBDA t, sum: Ret(t, read(t, sum)))

\* the addressing mode the low five bits of an opcode select for a value operand
fetch_operand_value(s, op) ==
  LET mode == op % 32 IN
  CASE mode \in {\h00, \h02, \h09} -> fetch(s)
    [] mode = \h01 -> fetch_indirect_x(s)
    [] mode \in {\h04, \h05, \h06} -> fetch_zero_page(s)
    [] mode \in {\h0C, \h0D, \h0E} -> fetch_absolute(s)
    [] mode = \h11 -> fetch_indirect_y(s)
    [] mode \in {\h14, \h15} -> fetch_zero_page_x(s)
    [] mode = \h16 -> fetch_zero_page_y(s)
    [] mode = \h19 -> fetch_absolute_y(s)
    [] mode \in {\h1C, \h1D} -> fetch_absolute_x(s)
    [] mode = \h1E -> fetch_absolute_y(s)

\* "no address": the operand is the accumulator
NoAddress == -1

\* the address an opcode's operand resolves to, for the read-modify-write family
fetch_operand_address(s, op) ==
  LET mode == op % 32 IN
  CASE mode = \h0A -> Ret(s, NoAddress)
    [] mode = \h06 -> fetch(s)
    [] mode = \h0E -> fetch_word(s)
    [] mode = \h16 ->
         LET base == fetch(s) IN Ret(base.s, (base.v + base.s.x_index) % 256)
    [] mode = \h1E ->
         LET base == fetch_word(s) IN Ret(base.s, (base.v + base.s.x_index) % 65536)

(***************************************************************************)
(* The opcode dispatcher (execute.rs), one operator per arm of the match.  *)
(***************************************************************************)
Ok(s) == [s EXCEPT !.result = "Ok"]
Err(s) == [s EXCEPT !.result = "Err"]

LDA_OPCODES == {\hA1, \hA5, \hA9, \hAD, \hB1, \hB5, \hB9, \hBD}
LDX_OPCODES == {\hA2, \hA6, \hAE, \hB6, \hBE}
LDY_OPCODES == {\hA0, \hA4, \hAC, \hB4, \hBC}
STA_OPCODES == {\h81, \h85, \h8D, \h91, \h95, \h99, \h9D}
STX_OPCODES == {\h86, \h8E, \h96}
STY_OPCODES == {\h84, \h8C, \h94}

execute_lda(s, op) ==
  Then(fetch_operand_value(s, op),
       LAMBDA t, value: Ok(status_set_nz([t EXCEPT !.accumulator = value], value)))

execute_ldx(s, op) ==
  Then(fetch_operand_value(s, op),
       LAMBDA t, value: Ok(status_set_nz([t EXCEPT !.x_index = value], value)))

execute_ldy(s, op) ==
  Then(fetch_operand_value(s, op),
       LAMBDA t, value: Ok(status_set_nz([t EXCEPT !.y_index = value], value)))

\* the address a store writes to
store_address(s, op) ==
  CASE op = \h81 ->
         LET base == fetch(s)
         IN ThenRet(add_u8(base.s, base.v, base.s.x_index),
                    LAMBDA t, pointer: Ret(t, read_word(t, pointer)))
    [] op \in {\h85, \h86, \h84} -> fetch(s)
    [] op \in {\h8D, \h8E, \h8C} -> fetch_word(s)
    [] op = \h91 ->
         LET base == fetch(s)
             pointer == read_word(base.s, base.v)
         IN add_u16(base.s, pointer, base.s.y_index)
    [] op \in {\h95, \h94} ->
         LET base == fetch(s) IN add_u8(base.s, base.v, base.s.x_index)
    [] op = \h96 ->
         LET base == fetch(s) IN add_u8(base.s, base.v, base.s.y_index)
    [] op = \h99 ->
         LET base == fetch_word(s) IN add_u16(base.s, base.v, base.s.y_index)
    [] op = \h9D ->
         LET base == fetch_word(s) IN add_u16(base.s, base.v, base.s.x_index)

execute_sta(s, op) ==
  Then(store_address(s, op), LAMBDA t, address: Ok(write(t, address, t.accumulator)))

execute_stx(s, op) ==
  Then(store_address(s, op), LAMBDA t, address: Ok(write(t, address, t.x_index)))

execute_sty(s, op) ==
  Then(store_address(s, op), LAMBDA t, address: Ok(write(t, address, t.y_index)))

\* TAX, TAY, TSX, TXA, TXS, TYA
TRANSFER_OPCODES == {\hAA, \hA8, \hBA, \h8A, \h9A, \h98}

execute_transfer(s, op) ==
  CASE op = \hAA -> Ok(status_set_nz([s EXCEPT !.x_index = s.accumulator], s.accumulator))
    [] op = \hA8 -> Ok(status_set_nz([s EXCEPT !.y_index = s.accumulator], s.accumulator))
    [] op = \hBA -> Ok(status_set_nz([s EXCEPT !.x_index = s.stack_pointer], s.stack_pointer))
    [] op = \h8A -> Ok(status_set_nz([s EXCEPT !.accumulator = s.x_index], s.x_index))
    [] op = \h9A -> Ok([s EXCEPT !.stack_pointer = s.x_index])
    [] op = \h98 -> Ok(status_set_nz([s EXCEPT !.accumulator = s.y_index], s.y_index))

\* PHA, PHP, PLA, PLP
STACK_OPCODES == {\h48, \h08, \h68, \h28}

execute_pha(s) == Ok(push(s, s.accumulator))

execute_php(s) == Ok(push(s, s.status_register))

execute_pla(s) == LET r == pop(s) IN Ok([r.s EXCEPT !.accumulator = r.v])

execute_plp(s) == LET r == pop(s) IN Ok([r.s EXCEPT !.status_register = r.v])

ASL_OPCODES == {\h06, \h0A, \h0E, \h16, \h1E}
LSR_OPCODES == {\h46, \h4A, \h4E, \h56, \h5E}
ROL_OPCODES == {\h26, \h2A, \h2E, \h36, \h3E}
ROR_OPCODES == {\h66, \h6A, \h6E, \h76, \h7E}

\* the operand of a shift or rotate: the accumulator or the byte at the address
shift_operand(s, address) ==
  IF address = NoAddress THEN s.accumulator ELSE read(s, address)

\* writes the result of a shift or rotate back where its operand came from
shift_store(s, address, value) ==
  IF address = NoAddress THEN [s EXCEPT !.accumulator = value]
  ELSE write(s, address, value)

execute_asl(s, op) ==
  Then(fetch_operand_address(s, op),
       LAMBDA t, address:
         LET value == shift_operand(t, address)
             res == Shl(value, 1, 8)
             u == status_set_nz(status_write(t, CARRY, BitAnd(value, 128, 8) # 0), res)
         IN Ok(shift_store(u, address, res)))

execute_lsr(s, op) ==
  Then(fetch_operand_address(s, op),
       LAMBDA t, address:
         LET value == shift_operand(t, address)
             res == Shr(value, 1)
             u == status_set_nz(status_write(t, CARRY, BitAnd(value, 1, 8) # 0), res)
         IN Ok(shift_store(u, address, res)))

execute_rol(s, op) ==
  Then(fetch_operand_address(s, op),
       LAMBDA t, address:
         LET value == shift_operand(t, address)
             carry == IF status_read(t, CARRY) THEN 1 ELSE 0
             res == BitOr(Shl(value, 1, 8), carry, 8)
             u == status_set_nz(status_write(t, CARRY, BitAnd(value, 128, 8) # 0), res)
         IN Ok(shift_store(u, address, res)))

\* ROR that shifts a zero into bit 7 whatever Carry holds
execute_ror_drops_carry(s, op) ==
  Then(fetch_operand_address(s, op),
       LAMBDA t, address:
         LET value == shift_operand(t, address)
             res == Shr(value, 1)
             u == status_set_nz(status_write(t, CARRY, BitAnd(value, 1, 8) # 0), res)
         IN Ok(shift_store(u, address, res)))

execute_ror(s, op) ==
  Then(fetch_operand_address(s, op),
       LAMBDA t, address:
         LET value == shift_operand(t, address)
             carry == IF status_read(t, CARRY) THEN 1 ELSE 0
             res == BitOr(Shr(value, 1), Shl(carry, 7, 8), 8)
             u == status_set_nz(status_write(t, CARRY, BitAnd(value, 1, 8) # 0), res)
         IN Ok(shift_store(u, address, res)))

AND_OPCODES == {\h21, \h25, \h29, \h2D, \h31, \h35, \h39, \h3D}
BIT_OPCODES == {\h24, \h2C}
EOR_OPCODES == {\h41, \h45, \h49, \h4D, \h51, \h55, \h59, \h5D}
ORA_OPCODES == {\h01, \h05, \h09, \h0D, \h11, \h15, \h19, \h1D}

execute_and(s, op) ==
  Then(fetch_operand_value(s, op),
       LAMBDA t, value:
         LET res == BitAnd(t.accumulator, value, 8)
         IN Ok(status_set_nz([t EXCEPT !.accumulator = res], res)))

execute_bit(s, op) ==
  Then(IF op = \h24 THEN fetch_zero_page(s) ELSE fetch_absolute(s),
       LAMBDA t, value:
         Ok(status_write(
              status_write(
                status_write(t, NEGATIVE, BitAnd(value, 128, 8) # 0),
                OVERFLOW, BitAnd(value, 64, 8) # 0),
              ZERO, BitAnd(value, t.accumulator, 8) = 0)))

execute_eor(s, op) ==
  Then(fetch_operand_value(s, op),
       LAMBDA t, value:
         LET res == BitXor(t.accumulator, value, 8)
         IN Ok(status_set_nz([t EXCEPT !.accumulator = res], res)))

execute_ora(s, op) ==
  Then(fetch_operand_value(s, op),
       LAMBDA t, value:
         LET res == BitOr(t.accumulator, value, 8)
         IN Ok(status_set_nz([t EXCEPT !.accumulator = res], res)))

ADC_OPCODES == {\h61, \h65, \h69, \h6D, \h71, \h75, \h79, \h7D}
CMP_OPCODES == {\hC1, \hC5, \hC9, \hCD, \hD1, \hD5, \hD9, \hDD}
CPX_OPCODES == {\hE0, \hE4, \hEC}
CPY_OPCODES == {\hC0, \hC4, \hCC}
SBC_OPCODES == {\hE1, \hE5, \hE9, \hED, \hF1, \hF5, \hF9, \hFD}

execute_adc(s, op) ==
  Then(fetch_operand_value(s, op), LAMBDA t, value: Ok(alu_add(t, value)))

execute_cmp(s, op) ==
  Then(fetch_operand_value(s, op),
       LAMBDA t, value: Ok(alu_compare(t, t.accumulator, value)))

\* CPX comparing the accumulator in place of X
execute_cpx_accumulator(s, op) ==
  Then(fetch_operand_value(s, op),
       LAMBDA t, value: Ok(alu_compare(t, t.accumulator, value)))

execute_cpx(s, op) ==
  Then(fetch_operand_value(s, op),
       LAMBDA t, value: Ok(alu_compare(t, t.x_index, value)))

execute_cpy(s, op) ==
  Then(fetch_operand_value(s, op),
       LAMBDA t, value: Ok(alu_compare(t, t.y_index, value)))

execute_sbc(s, op) ==
  Then(fetch_operand_value(s, op), LAMBDA t, value: Ok(alu_subtract(t, value)))

DEC_OPCODES == {\hC6, \hCE, \hD6, \hDE}
INC_OPCODES == {\hE6, \hEE, \hF6, \hFE}
\* DEX, DEY, INX, INY
STEP_OPCODES == {\hCA, \h88, \hE8, \hC8}

execute_dec(s, op) ==
  Then(fetch_operand_address(s, op),
       LAMBDA t, address:
         Then(sub_u8(t, read(t, address), 1),
              LAMBDA u, res: Ok(write(status_set_nz(u, res), address, res))))

execute_inc(s, op) ==
  Then(fetch_operand_address(s, op),
       LAMBDA t, address:
         Then(add_u8(t, read(t, address), 1),
              LAMBDA u, res: Ok(write(status_set_nz(u, res), address, res))))

execute_dex(s) ==
  Then(sub_u8(s, s.x_index, 1),
       LAMBDA t, res: Ok(status_set_nz([t EXCEPT !.x_index = res], res)))

execute_dey(s) ==
  Then(sub_u8(s, s.y_index, 1),
       LAMBDA t, res: Ok(status_set_nz([t EXCEPT !.y_index = res], res)))

execute_inx(s) ==
  Then(add_u8(s, s.x_index, 1),
       LAMBDA t, res: Ok(status_set_nz([t EXCEPT !.x_index = res], res)))

execute_iny(s) ==
  Then(add_u8(s, s.y_index, 1),
       LAMBDA t, res: Ok(status_set_nz([t EXCEPT !.y_index = res], res)))

BRK_OPCODE == 0
JMP_OPCODES == {\h4C, \h6C}
JSR_OPCODE == 32
RTI_OPCODE == 64
RTS_OPCODE == 96

execute_brk(s) == Err(s)

execute_jmp(s, op) ==
  LET word == fetch_word(s)
  IN IF op = \h4C THEN Ok(pc_load(word.s, word.v))
     ELSE Ok(pc_load(word.s, read_word(word.s, word.v)))

execute_jsr(s) ==
  LET address == fetch_word(s)
  IN Then(add_u16(address.s, pc_address(address.s), 1),
          LAMBDA t, return_to:
            LET high == BitAnd(return_to, Shr(255, 8), 16) % 256
                low == BitAnd(return_to, 255, 16) % 256
            IN Ok(pc_load(push(push(t, high), low), address.v)))

execute_rti(s) == Err(s)

execute_rts(s) ==
  LET pc_low == pop(s)
      pc_high == pop(pc_low.s)
  IN Then(add_u16(pc_high.s, BitOr(pc_high.v, Shl(pc_low.v, 8, 16), 16), 1),
          LAMBDA t, address: Ok(pc_load(t, address)))

\* BCC, BCS, BEQ, BMI, BNE, BPL, BVC, BVS
BRANCH_OPCODES == {\h90, \hB0, \hF0, \h30, \hD0, \h10, \h50, \h70}

branch_condition(s, op) ==
  CASE op = \h90 -> ~status_read(s, CARRY)
    [] op = \hB0 -> status_read(s, CARRY)
    [] op = \hF0 -> status_read(s, ZERO)
    [] op = \h30 -> status_read(s, NEGATIVE)
    [] op = \hD0 -> ~status_read(s, ZERO)
    [] op = \h10 -> ~status_read(s, NEGATIVE)
    [] op = \h50 -> ~status_read(s, OVERFLOW)
    [] op = \h70 -> status_read(s, OVERFLOW)

\* a branch that reads its operand only when it is taken
execute_branch_lazy(s, op) ==
  IF branch_condition(s, op) THEN Ok(pc_offset(fetch(s).s, AsI8(fetch(s).v)))
  ELSE Ok(s)

execute_branch(s, op) ==
  LET operand == fetch(s)
      offset == AsI8(operand.v)
  IN IF branch_condition(operand.s, op) THEN Ok(pc_offset(operand.s, offset))
     ELSE Ok(operand.s)

\* CLC, CLD, CLI, CLV
CLEAR_OPCODES == {\h18, \hD8, \h58, \hB8}
\* SEC, SED, SEI
SET_OPCODES == {\h38, \hF8, \h78}
NOP_OPCODE == 234

execute_clear(s, op) ==
  Ok(status_clear(s, CASE op = \h18 -> CARRY
                       [] op = \hD8 -> DECIMAL
                       [] op = \h58 -> INTERRUPT
                       [] op = \hB8 -> OVERFLOW))

\* the set arm with the flags of SED and SEI exchanged
execute_set_exchanged(s, op) ==
  Ok(status_set(s, CASE op = \h38 -> CARRY
                     [] op = \hF8 -> INTERRUPT
                     [] op = \h78 -> DECIMAL))

execute_set(s, op) ==
  Ok(status_set(s, CASE op = \h38 -> CARRY
                     [] op = \hF8 -> DECIMAL
                     [] op = \h78 -> INTERRUPT))

execute_nop(s) == Ok(s)

\* the default arm, stepping over a byte it takes for an operand
execute_unimplemented_skips(s) == Err(pc_increment(s))

\* the default arm: "Unimplemented opcode"
execute_unimplemented(s) == Err(s)

execute(s, op) ==
  CASE op \in LDA_OPCODES -> execute_lda(s, op)
    [] op \in LDX_OPCODES -> execute_ldx(s, op)
    [] op \in LDY_OPCODES -> execute_ldy(s, op)
    [] op \in STA_OPCODES -> execute_sta(s, op)
    [] op \in STX_OPCODES -> execute_stx(s, op)
    [] op \in STY_OPCODES -> execute_sty(s, op)
    [] op \in TRANSFER_OPCODES -> execute_transfer(s, op)
    [] op = \h48 -> execute_pha(s)
    [] op = \h08 -> execute_php(s)
    [] op = \h68 -> execute_pla(s)
    [] op = \h28 -> execute_plp(s)
    [] op \in ASL_OPCODES -> execute_asl(s, op)
    [] op \in LSR_OPCODES -> execute_lsr(s, op)
    [] op \in ROL_OPCODES -> execute_rol(s, op)
    [] op \in ROR_OPCODES -> execute_ror(s, op)
    [] op \in AND_OPCODES -> execute_and(s, op)
    [] op \in BIT_OPCODES -> execute_bit(s, op)
    [] op \in EOR_OPCODES -> execute_eor(s, op)
    [] op \in ORA_OPCODES -> execute_ora(s, op)
    [] op \in ADC_OPCODES -> execute_adc(s, op)
    [] op \in CMP_OPCODES -> execute_cmp(s, op)
    [] op \in CPX_OPCODES -> execute_cpx(s, op)
    [] op \in CPY_OPCODES -> execute_cpy(s, op)
    [] op \in SBC_OPCODES -> execute_sbc(s, op)
    [] op \in DEC_OPCODES -> execute_dec(s, op)
    [] op = \hCA -> execute_dex(s)
    [] op = \h88 -> execute_dey(s)
    [] op \in INC_OPCODES -> execute_inc(s, op)
    [] op = \hE8 -> execute_inx(s)
    [] op = \hC8 -> execute_iny(s)
    [] op = BRK_OPCODE -> execute_brk(s)
    [] op \in JMP_OPCODES -> execute_jmp(s, op)
    [] op = JSR_OPCODE -> execute_jsr(s)
    [] op = RTI_OPCODE -> execute_rti(s)
    [] op = RTS_OPCODE -> execute_rts(s)
    [] op \in BRANCH_OPCODES -> execute_branch(s, op)
    [] op \in CLEAR_OPCODES -> execute_clear(s, op)
    [] op \in SET_OPCODES -> execute_set(s, op)
    [] op = NOP_OPCODE -> execute_nop(s)
    [] OTHER -> execute_unimplemented(s)

(***************************************************************************)
(* The driver (system.rs): reset, tick and interrupt entry.                *)
(***************************************************************************)
RESET_VECTOR == 65532
INTERRUPT_VECTOR == 65534
POWER_ON_STACK_POINTER == 255

\* reset that leaves the program counter alone
reset_ignores_vector(s) ==
  [s EXCEPT !.accumulator = 0, !.x_index = 0, !.y_index = 0,
            !.stack_pointer = POWER_ON_STACK_POINTER,
            !.status_register = BitOr(INTERRUPT, UNUSED, 8),
            !.memory_resets = s.memory_resets + 1,
            !.result = "none"]

reset(s) ==
  [s EXCEPT !.accumulator = 0, !.x_index = 0, !.y_index = 0,
            !.stack_pointer = POWER_ON_STACK_POINTER,
            !.status_register = BitOr(INTERRUPT, UNUSED, 8),
            !.program_counter = read_word(s, RESET_VECTOR),
            !.memory_resets = s.memory_resets + 1,
            !.result = "none"]

\* the status byte interrupt entry pushes
interrupt_status(s, is_software) ==
  BitOr(BitOr(BitAnd(s.status_register, 255 - BREAK, 8),
              IF is_software THEN BREAK ELSE 0, 8),
        UNUSED, 8)

interrupt(s, is_software) ==
  LET hi == push(s, Shr(pc_address(s), 8))
      lo == push(hi, pc_address(s) % 256)
      st == push(lo, interrupt_status(s, is_software))
  IN pc_load(status_set(st, INTERRUPT), read_word(st, INTERRUPT_VECTOR))

\* tick that reports success whatever execute returned
tick_swallows_fault(s) ==
  LET fetched == fetch(s)
      e == execute(fetched.s, fetched.v)
  IN [entry |-> fetched.s, opcode |-> fetched.v,
      exit |-> IF e.result = "Err" THEN [e EXCEPT !.result = "Ok"] ELSE e]

\* one fetch-decode-execute cycle: the state execute was entered with, the
\* opcode fetched and the state execute left
tick(s) ==
  LET fetched == fetch(s)
  IN [entry |-> fetched.s, opcode |-> fetched.v, exit |-> execute(fetched.s, fetched.v)]

(***************************************************************************)
(* The machine as a state machine.                                         *)
(***************************************************************************)
System ==
  [accumulator |-> accumulator, x_index |-> x_index, y_index |-> y_index,
   stack_pointer |-> stack_pointer, program_counter |-> program_counter,
   status_register |-> status_register, memory |-> memory,
   memory_resets |-> memory_resets,
   overflow_checks |-> overflow_checks, result |-> result]

Becomes(s) ==
  /\ accumulator' = s.accumulator
  /\ x_index' = s.x_index
  /\ y_index' = s.y_index
  /\ stack_pointer' = s.stack_pointer
  /\ program_counter' = s.program_counter
  /\ status_register' = s.status_register
  /\ memory' = s.memory
  /\ memory_resets' = s.memory_resets
  /\ overflow_checks' = s.overflow_checks
  /\ result' = s.result

NoCall ==
  [valid |-> FALSE, at |-> 0, stack_pointer |-> 0, left_stack_pointer |-> 0,
   first |-> 0, second |-> 0]

NoEntry == [valid |-> FALSE, program_counter |-> 0, stack_pointer |-> 0,
            status_register |-> 0, left_stack_pointer |-> 0,
            first |-> 0, second |-> 0, third |-> 0]

\* the bytes at the two (three) stack slots a push sequence begun at sp filled
StackSlot(s, sp, k) == read(s, STACK_BASE + ((sp - k) % 256))

\* the record a completed JSR leaves for the matching RTS
CallLeft(before, after) ==
  [valid |-> TRUE,
   at |-> (before.program_counter - 1) % 65536,
   stack_pointer |-> before.stack_pointer,
   left_stack_pointer |-> after.stack_pointer,
   first |-> StackSlot(after, before.stack_pointer, 0),
   second |-> StackSlot(after, before.stack_pointer, 1)]

\* the record interrupt entry leaves for the matching RTI
EntryLeft(before, after) ==
  [valid |-> TRUE,
   program_counter |-> before.program_counter,
   stack_pointer |-> before.stack_pointer,
   status_register |-> before.status_register,
   left_stack_pointer |-> after.stack_pointer,
   first |-> StackSlot(after, before.stack_pointer, 0),
   second |-> StackSlot(after, before.stack_pointer, 1),
   third |-> StackSlot(after, before.stack_pointer, 2)]

\* the operand bytes an instruction is placed with: (low, high)
OperandPairs == {<<\hFF, \h00>>, <<\h02, \h10>>, <<\hFF, \hFF>>, <<\h80, \h12>>}

\* the memory image the host supplies
Image ==
  (\h0001 :> \h34) @@ (\h0002 :> \h12) @@ (\h0101 :> \h77) @@ (\h1234 :> \h56)
  @@ (\h01FE :> \h5A) @@ (\hFFFD :> \h10) @@ (\hFFFF :> \h20)

\* accumulator, X, Y, stack pointer
RegisterFiles ==
  {<<\h10, \h02, \h01, \hFF>>, <<\h80, \h00, \hFF, \h00>>, <<\hFF, \hFF, \h00, \hFD>>}

StatusBytes == {\h24, \hC3, \h00, \hFF}

ProgramCounters == {\h1000, \hFFFE}

AllOpcodes == 0..255

BusIdle == [op |-> "none", address |-> 0, value |-> 0, selected |-> 0,
            offset |-> 0, returned |-> 0, failed |-> FALSE, before |-> <<>>,
            delivered |-> <<>>]

\* the host writes the three bytes of an instruction at the program counter
Place(op, pair) ==
  /\ result # "panic"
  /\ ~placed
  /\ placed' = TRUE
  /\ memory' = MemWrite(MemWrite(MemWrite(memory, program_counter, op),
                                 (program_counter + 1) % 65536, pair[1]),
                        (program_counter + 2) % 65536, pair[2])
  /\ opcode' = -1
  /\ UNCHANGED <<accumulator, x_index, y_index, stack_pointer, program_counter,
                 status_register, memory_resets, overflow_checks, result,
                 entry, steps, last_call, call, saved, bus_vars>>

\* System::tick
Tick ==
  /\ result # "panic"
  /\ LET t == tick(System) IN
       /\ Becomes(t.exit)
       /\ opcode' = t.opcode
       /\ entry' = t.entry
       /\ call' = IF t.opcode = JSR_OPCODE /\ t.exit.result = "Ok"
                  THEN CallLeft(t.entry, t.exit) ELSE call
  /\ placed' = FALSE
  /\ steps' = steps + 1
  /\ last_call' = "tick"
  /\ UNCHANGED <<saved, bus_vars>>

\* the program the image starts with: it leaves the stack pointer r[4], the
\* status byte sr, the accumulator, X and Y r[1], r[2], r[3] and goes to pc
\*   LDX #sp, TXS, LDA #sr, PHA, LDA #a, LDX #x, LDY #y, PLP, JMP pc
Prologue(r, sr, pc) ==
  << <<\hA2, r[4]>>, <<\h9A>>, <<\hA9, sr>>, <<\h48>>, <<\hA9, r[1]>>,
     <<\hA2, r[2]>>, <<\hA0, r[3]>>, <<\h28>>, <<\h4C, pc % 256, pc \div 256>> >>

\* the number of ticks the prologue takes
PrologueSteps == Len(Prologue(<<0, 0, 0, 0>>, 0, 0))

\* the bytes of a program, instruction after instruction
ProgramBytes(program) ==
  LET f[i \in 0..Len(program)] == IF i = 0 THEN <<>> ELSE f[i - 1] \o program[i]
  IN f[Len(program)]

\* the image with the program at 0x0200 and the reset vector naming it
BootImage(image, program) ==
  LET bytes == ProgramBytes(program)
      f[i \in 0..Len(bytes)] ==
        IF i = 0
        THEN MemWrite(MemWrite(image, RESET_VECTOR, \h00), RESET_VECTOR + 1, \h02)
        ELSE MemWrite(f[i - 1], \h0200 + i - 1, bytes[i])
  IN f[Len(bytes)]

\* System::new followed by System::reset, over an image whose prologue will
\* bring the machine to any register file, status byte and program counter
Init ==
  /\ \E r \in RegisterFiles, sr \in StatusBytes, pc \in ProgramCounters:
       memory = BootImage(Image, Prologue(r, sr, pc))
  /\ accumulator = 0
  /\ x_index = 0
  /\ y_index = 0
  /\ stack_pointer = POWER_ON_STACK_POINTER
  /\ status_register = BitOr(INTERRUPT, UNUSED, 8)
  /\ program_counter = BitOr(MemRead(memory, RESET_VECTOR),
                             Shl(MemRead(memory, RESET_VECTOR + 1), 8, 16), 16)
  /\ overflow_checks \in BOOLEAN
  /\ result = "none"
  /\ memory_resets = 1
  /\ last_call = "reset"
  /\ opcode = -1
  /\ entry = System
  /\ placed = FALSE
  /\ steps = 0
  /\ call = NoCall
  /\ saved = NoEntry
  /\ mapping = <<>>
  /\ bus = BusIdle

\* once the prologue has run, the host places one instruction
PlaceAny ==
  steps = PrologueSteps /\ \E op \in AllOpcodes, pair \in OperandPairs: Place(op, pair)

\* the ticks of the prologue, and one more for the instruction placed
TickOnce == steps <= PrologueSteps /\ Tick

Next == PlaceAny \/ TickOnce

Spec == Init /\ [][Next]_vars

(***************************************************************************)
(* One instruction over every 8-bit operand value: the shifts, rotates and *)
(* compares, with each register and one memory cell ranging over 0..255.   *)
(***************************************************************************)
\* accumulator, X, Y: each takes every value, the three pairwise different
ValueRegisterFiles == {<<r, (r + 85) % 256, (r + 170) % 256>> : r \in 0..255}

\* Carry, Zero, Negative all clear, and all set
ValueStatusBytes == {\h24, \hE7}

\* operand bytes: the zero-page or absolute address 0x0080 of the cell that
\* holds the memory operand, and the immediate values 0x80, 0x20, 0xFF
ValuePairs == {<<\h80, \h00>>, <<\h20, \h00>>, <<\hFF, \h00>>}

ValueOpcodes ==
  ASL_OPCODES \cup LSR_OPCODES \cup ROL_OPCODES \cup ROR_OPCODES
  \cup CMP_OPCODES \cup CPX_OPCODES \cup CPY_OPCODES

\* System::new followed by System::reset, over an image whose prologue
\* loads the registers and whose cell 0x0080 holds the memory operand
InitValues ==
  /\ \E r \in ValueRegisterFiles, sr \in ValueStatusBytes:
       memory = BootImage(MemWrite(Image, \h80, 255 - r[1]),
                          Prologue(r \o <<POWER_ON_STACK_POINTER>>, sr, \h1000))
  /\ accumulator = 0
  /\ x_index = 0
  /\ y_index = 0
  /\ stack_pointer = POWER_ON_STACK_POINTER
  /\ status_register = BitOr(INTERRUPT, UNUSED, 8)
  /\ program_counter = BitOr(MemRead(memory, RESET_VECTOR),
                             Shl(MemRead(memory, RESET_VECTOR + 1), 8, 16), 16)
  /\ overflow_checks \in BOOLEAN
  /\ result = "none"
  /\ memory_resets = 1
  /\ last_call = "reset"
  /\ opcode = -1
  /\ entry = System
  /\ placed = FALSE
  /\ steps = 0
  /\ call = NoCall
  /\ saved = NoEntry
  /\ mapping = <<>>
  /\ bus = BusIdle

PlaceValue ==
  steps = PrologueSteps /\ \E op \in ValueOpcodes, pair \in ValuePairs: Place(op, pair)

TickValue == steps <= PrologueSteps /\ Tick

NextValues == PlaceValue \/ TickValue

SpecValues == InitValues /\ [][NextValues]_vars

(***************************************************************************)
(* Sequences of driver calls from the reset state.                         *)
(***************************************************************************)
MaxSteps == 3

\* JSR, RTS, BRK, RTI, PHP, PLP, NOP and an unassigned byte
SeqOpcodes == {\h20, \h60, \h00, \h40, \h08, \h28, \hEA, \hFF}

SeqPairs == {<<\h00, \h20>>, <<\hFF, \h01>>}

\* the low byte the image holds at the reset vector
ResetVectorLows == {\h00, \h34}

\* System::new followed by System::reset
InitSeq ==
  /\ accumulator = 0
  /\ x_index = 0
  /\ y_index = 0
  /\ stack_pointer = POWER_ON_STACK_POINTER
  /\ status_register = BitOr(INTERRUPT, UNUSED, 8)
  /\ \E lo \in ResetVectorLows: memory = MemWrite(Image, RESET_VECTOR, lo)
  /\ program_counter = BitOr(MemRead(memory, RESET_VECTOR),
                             Shl(MemRead(memory, RESET_VECTOR + 1), 8, 16), 16)
  /\ overflow_checks \in BOOLEAN
  /\ result = "none"
  /\ memory_resets = 1
  /\ last_call = "reset"
  /\ opcode = -1
  /\ entry = System
  /\ placed = FALSE
  /\ steps = 0
  /\ call = NoCall
  /\ saved = NoEntry
  /\ mapping = <<>>
  /\ bus = BusIdle

PlaceSeq ==
  steps < MaxSteps /\ \E op \in SeqOpcodes, pair \in SeqPairs: Place(op, pair)

TickSeq == steps < MaxSteps /\ Tick

\* System::interrupt(false): a hardware interrupt is delivered between ticks
Interrupt ==
  /\ steps < MaxSteps
  /\ result # "panic"
  /\ ~placed
  /\ LET t == interrupt(System, FALSE) IN
       /\ Becomes(t)
       /\ saved' = EntryLeft(System, t)
  /\ opcode' = -1
  /\ steps' = steps + 1
  /\ last_call' = "interrupt"
  /\ UNCHANGED <<entry, placed, call, bus_vars>>

\* System::reset
Reset ==
  /\ steps < MaxSteps
  /\ result # "panic"
  /\ ~placed
  /\ Becomes(reset(System))
  /\ opcode' = -1
  /\ steps' = steps + 1
  /\ last_call' = "reset"
  /\ UNCHANGED <<entry, placed, call, saved, bus_vars>>

NextSeq == PlaceSeq \/ TickSeq \/ Interrupt \/ Reset

SpecSeq == InitSeq /\ [][NextSeq]_vars

(***************************************************************************)
(* The address-space router (memory/branch.rs) and the stores it holds.    *)
(* A store is [kind, cells, ticks, resets]: cells are the bytes it holds   *)
(* that are not zero, ticks and resets count the calls delivered to it.    *)
(***************************************************************************)
Store(kind) == [kind |-> kind, cells |-> <<>>, ticks |-> 0, resets |-> 0]

\* a null store that reads as an open bus
null_read_open(store, address) == 255

\* impl Memory for NullMemory
null_read(store, address) == 0

null_write(store, address, value) == store

null_tick(store) == [store EXCEPT !.ticks = @ + 1]

null_reset(store) == [store EXCEPT !.resets = @ + 1]

\* a plain read-write store
ram_read(store, address) == MemRead(store.cells, address)

ram_write(store, address, value) ==
  [store EXCEPT !.cells = MemWrite(store.cells, address, value)]

ram_tick(store) == [store EXCEPT !.ticks = @ + 1]

ram_reset(store) == [store EXCEPT !.resets = @ + 1]

\* dyn Memory: the call goes to the store's own implementation
store_read(store, address) ==
  IF store.kind = "null" THEN null_read(store, address) ELSE ram_read(store, address)

store_write(store, address, value) ==
  IF store.kind = "null" THEN null_write(store, address, value)
  ELSE ram_write(store, address, value)

store_tick(store) ==
  IF store.kind = "null" THEN null_tick(store) ELSE ram_tick(store)

store_reset(store) ==
  IF store.kind = "null" THEN null_reset(store) ELSE ram_reset(store)

\* BranchMemory::map
branch_map(m, address, store) == Append(m, [start |-> address, store |-> store])

\* the loop leaving at its first match
branch_select_first(m, address) ==
  LET f[i \in 0..Len(m)] ==
        IF i = 0 THEN [memory |-> 0, offset |-> 0]
        ELSE IF f[i - 1].memory # 0 THEN f[i - 1]
             ELSE IF address >= m[i].start
                  THEN [memory |-> i, offset |-> m[i].start % 65536]
                  ELSE f[i - 1]
  IN f[Len(m)]

\* the loop of read and write: memory is the index of the entry chosen (0 is
\* None) and offset its start as u16, after every entry was looked at in order
branch_select(m, address) ==
  LET f[i \in 0..Len(m)] ==
        IF i = 0 THEN [memory |-> 0, offset |-> 0]
        ELSE IF address >= m[i].start
             THEN [memory |-> i, offset |-> m[i].start % 65536]
             ELSE f[i - 1]
  IN f[Len(m)]

\* address - offset on u16: what the access is delegated with, and whether
\* the subtraction overflowed in a build that checks
branch_offset(address, offset, checks) ==
  [offset |-> (address - offset) % 65536, failed |-> address - offset < 0 /\ checks]

\* BranchMemory::read: the access as it was delegated and what it returned
branch_read(m, address, checks) ==
  LET chosen == branch_select(m, address)
      at == branch_offset(address, chosen.offset, checks)
  IN IF chosen.memory = 0
     THEN [selected |-> 0, offset |-> 0, returned |-> 0, failed |-> FALSE]
     ELSE [selected |-> chosen.memory, offset |-> at.offset,
           returned |-> IF at.failed THEN 0
                        ELSE store_read(m[chosen.memory].store, at.offset),
           failed |-> at.failed]

\* write whose loop leaves at its first match while read's runs to the end
branch_write_first(m, address, value, checks) ==
  LET chosen == branch_select_first(m, address)
      at == branch_offset(address, chosen.offset, checks)
  IN IF chosen.memory = 0
     THEN [selected |-> 0, offset |-> 0, failed |-> FALSE, mapping |-> m]
     ELSE [selected |-> chosen.memory, offset |-> at.offset, failed |-> at.failed,
           mapping |-> IF at.failed THEN m
                       ELSE [m EXCEPT ![chosen.memory].store =
                               store_write(@, at.offset, value)]]

\* BranchMemory::write: the access as it was delegated and the mapping after it
branch_write(m, address, value, checks) ==
  LET chosen == branch_select(m, address)
      at == branch_offset(address, chosen.offset, checks)
  IN IF chosen.memory = 0
     THEN [selected |-> 0, offset |-> 0, failed |-> FALSE, mapping |-> m]
     ELSE [selected |-> chosen.memory, offset |-> at.offset, failed |-> at.failed,
           mapping |-> IF at.failed THEN m
                       ELSE [m EXCEPT ![chosen.memory].store =
                               store_write(@, at.offset, value)]]

\* the loop of tick run from the last entry to the first
branch_tick_reversed(m) ==
  LET n == Len(m)
      f[i \in 0..n] ==
        IF i = 0 THEN [mapping |-> m, delivered |-> <<>>]
        ELSE [mapping |-> [f[i - 1].mapping EXCEPT ![n + 1 - i].store = store_tick(@)],
              delivered |-> Append(f[i - 1].delivered, n + 1 - i)]
  IN f[n]

\* BranchMemory::tick: the loop over the entries in order; delivered lists
\* the entries in the order their store's tick was called
branch_tick(m) ==
  LET f[i \in 0..Len(m)] ==
        IF i = 0 THEN [mapping |-> m, delivered |-> <<>>]
        ELSE [mapping |-> [f[i - 1].mapping EXCEPT ![i].store = store_tick(@)],
              delivered |-> Append(f[i - 1].delivered, i)]
  IN f[Len(m)]

\* BranchMemory::reset: the same loop calling each store's reset
branch_reset(m) ==
  LET f[i \in 0..Len(m)] ==
        IF i = 0 THEN [mapping |-> m, delivered |-> <<>>]
        ELSE [mapping |-> [f[i - 1].mapping EXCEPT ![i].store = store_reset(@)],
              delivered |-> Append(f[i - 1].delivered, i)]
  IN f[Len(m)]

MaxEntries == 2
MaxAccesses == 2

Starts == {\h0000, \h4000, \h8000}
StoreKinds == {"null", "ram"}
BusAddresses == {\h0000, \h3FFF, \h4000, \h8000, \hFFFF}
BusValues == {\hA5}

\* BranchMemory::new, the machine idle
InitBus ==
  /\ mapping = <<>>
  /\ bus = BusIdle
  /\ overflow_checks \in BOOLEAN
  /\ accumulator = 0
  /\ x_index = 0
  /\ y_index = 0
  /\ stack_pointer = 0
  /\ program_counter = 0
  /\ status_register = 0
  /\ memory = <<>>
  /\ result = "none"
  /\ memory_resets = 0
  /\ last_call = "none"
  /\ opcode = -1
  /\ entry = System
  /\ placed = FALSE
  /\ steps = 0
  /\ call = NoCall
  /\ saved = NoEntry

bus_frame == <<accumulator, x_index, y_index, stack_pointer, program_counter,
               status_register, memory, memory_resets, overflow_checks, result,
               opcode, entry, placed, last_call, call, saved>>

\* the builder attaches a store; the router is built before it is used
Map(start, kind) ==
  /\ steps = 0
  /\ Len(mapping) < MaxEntries
  /\ mapping' = branch_map(mapping, start, Store(kind))
  /\ UNCHANGED <<bus, steps, bus_frame>>

BusRead(address) ==
  /\ steps < MaxAccesses
  /\ ~bus.failed
  /\ LET r == branch_read(mapping, address, overflow_checks) IN
       bus' = [op |-> "read", address |-> address, value |-> 0,
               selected |-> r.selected, offset |-> r.offset,
               returned |-> r.returned, failed |-> r.failed, before |-> mapping,
               delivered |-> <<>>]
  /\ steps' = steps + 1
  /\ UNCHANGED <<mapping, bus_frame>>

BusWrite(address, value) ==
  /\ steps < MaxAccesses
  /\ ~bus.failed
  /\ LET w == branch_write(mapping, address, value, overflow_checks) IN
       /\ mapping' = w.mapping
       /\ bus' = [op |-> "write", address |-> address, value |-> value,
                  selected |-> w.selected, offset |-> w.offset,
                  returned |-> 0, failed |-> w.failed, before |-> mapping,
                  delivered |-> <<>>]
  /\ steps' = steps + 1
  /\ UNCHANGED bus_frame

BusTick ==
  /\ steps < MaxAccesses
  /\ ~bus.failed
  /\ LET t == branch_tick(mapping) IN
       /\ mapping' = t.mapping
       /\ bus' = [BusIdle EXCEPT !.op = "tick", !.before = mapping,
                                 !.delivered = t.delivered]
  /\ steps' = steps + 1
  /\ UNCHANGED bus_frame

BusReset ==
  /\ steps < MaxAccesses
  /\ ~bus.failed
  /\ LET r == branch_reset(mapping) IN
       /\ mapping' = r.mapping
       /\ bus' = [BusIdle EXCEPT !.op = "reset", !.before = mapping,
                                 !.delivered = r.delivered]
  /\ steps' = steps + 1
  /\ UNCHANGED bus_frame

NextBus ==
  \/ \E start \in Starts, kind \in StoreKinds: Map(start, kind)
  \/ \E address \in BusAddresses: BusRead(address)
  \/ \E address \in BusAddresses, value \in BusValues: BusWrite(address, value)
  \/ BusTick
  \/ BusReset

SpecBus == InitBus /\ [][NextBus]_vars

(***************************************************************************)
(* Properties.                                                             *)
(***************************************************************************)
\* every opcode byte an arm of the dispatcher names
RecognizedOpcodes ==
  UNION {LDA_OPCODES, LDX_OPCODES, LDY_OPCODES, STA_OPCODES, STX_OPCODES,
         STY_OPCODES, TRANSFER_OPCODES, STACK_OPCODES, ASL_OPCODES, LSR_OPCODES,
         ROL_OPCODES, ROR_OPCODES, AND_OPCODES, BIT_OPCODES, EOR_OPCODES,
         ORA_OPCODES, ADC_OPCODES, CMP_OPCODES, CPX_OPCODES, CPY_OPCODES,
         SBC_OPCODES, DEC_OPCODES, INC_OPCODES, STEP_OPCODES, JMP_OPCODES,
         BRANCH_OPCODES, CLEAR_OPCODES, SET_OPCODES,
         {BRK_OPCODE, JSR_OPCODE, RTI_OPCODE, RTS_OPCODE, NOP_OPCODE}}

\* a tick has dispatched an opcode
Dispatched == opcode # -1

\* the registers are what execute was entered with
RegistersAsEntered ==
  /\ accumulator = entry.accumulator
  /\ x_index = entry.x_index
  /\ y_index = entry.y_index
  /\ stack_pointer = entry.stack_pointer
  /\ status_register = entry.status_register

\* C1: a JSR at p, then instructions that leave the stack pointer and the two
\* bytes JSR pushed as JSR left them, then RTS: the program counter is p + 3
\* (mod 65536) and the stack pointer is what it was before the JSR.
C1_JsrRtsRoundTrip ==
  (/\ opcode = RTS_OPCODE
   /\ call.valid
   /\ entry.stack_pointer = call.left_stack_pointer
   /\ StackSlot(entry, call.stack_pointer, 0) = call.first
   /\ StackSlot(entry, call.stack_pointer, 1) = call.second)
  => (/\ result = "Ok"
      /\ program_counter = (call.at + 3) % 65536
      /\ stack_pointer = call.stack_pointer)

\* C2: an opcode byte no arm of the dispatcher names makes execute return Err
\* and change nothing: the registers, the program counter, the flags and the
\* memory are what execute was entered with.
C2_UnimplementedChangesNothing ==
  (Dispatched /\ opcode \notin RecognizedOpcodes)
  => (/\ result = "Err"
      /\ RegistersAsEntered
      /\ program_counter = entry.program_counter
      /\ memory = entry.memory)

C2_Witness ==
  /\ opcode = \hFF
  /\ result = "Err"
  /\ status_register = \hC3
  /\ program_counter = \hFFFF

\* C3: every opcode the dispatcher recognizes completes with success.
C3_RecognizedSucceeds ==
  (Dispatched /\ opcode \in RecognizedOpcodes) => result = "Ok"

\* C4: BRK steps over the signature byte and enters the interrupt sequence as
\* a software interrupt: the program counter is pushed high byte first, then
\* the status byte with Break and the reserved bit set, interrupt-disable is
\* set, the program counter is loaded from the interrupt vector, and the step
\* succeeds.
C4_BrkEntersInterrupt ==
  (Dispatched /\ opcode = BRK_OPCODE)
  => LET return_to == (entry.program_counter + 1) % 65536
         pushed == BitOr(entry.status_register, BREAK + UNUSED, 8)
     IN /\ result = "Ok"
        /\ stack_pointer = (entry.stack_pointer - 3) % 256
        /\ StackSlot(System, entry.stack_pointer, 0) = return_to \div 256
        /\ StackSlot(System, entry.stack_pointer, 1) = return_to % 256
        /\ StackSlot(System, entry.stack_pointer, 2) = pushed
        /\ Bit(status_register, 2) = 1
        /\ program_counter = MemRead(memory, INTERRUPT_VECTOR)
                             + 256 * MemRead(memory, INTERRUPT_VECTOR + 1)

\* C5: interrupt entry, then instructions that leave the three pushed bytes
\* and the stack pointer as entry left them, then RTI: the program counter,
\* the stack pointer and the flags are the ones interrupt entry saved.
C5_RtiRestores ==
  (/\ opcode = RTI_OPCODE
   /\ saved.valid
   /\ entry.stack_pointer = saved.left_stack_pointer
   /\ StackSlot(entry, saved.stack_pointer, 0) = saved.first
   /\ StackSlot(entry, saved.stack_pointer, 1) = saved.second
   /\ StackSlot(entry, saved.stack_pointer, 2) = saved.third)
  => (/\ result = "Ok"
      /\ program_counter = saved.program_counter
      /\ stack_pointer = saved.stack_pointer
      /\ \A k \in {0, 1, 2, 3, 6, 7}:
           Bit(status_register, k) = Bit(saved.status_register, k))

\* the flag condition of a branch opcode, read off the status byte sr
BranchTaken(op, sr) ==
  \/ op = \h90 /\ Bit(sr, 0) = 0
  \/ op = \hB0 /\ Bit(sr, 0) = 1
  \/ op = \hF0 /\ Bit(sr, 1) = 1
  \/ op = \hD0 /\ Bit(sr, 1) = 0
  \/ op = \h30 /\ Bit(sr, 7) = 1
  \/ op = \h10 /\ Bit(sr, 7) = 0
  \/ op = \h50 /\ Bit(sr, 6) = 0
  \/ op = \h70 /\ Bit(sr, 6) = 1

\* C6: a branch always consumes its operand: the program counter ends just
\* past the operand when the condition is false and there plus the signed
\* displacement (mod 65536) when it holds; nothing else changes.
C6_BranchConsumesOperand ==
  (Dispatched /\ opcode \in {\h90, \hB0, \hF0, \h30, \hD0, \h10, \h50, \h70})
  => LET d == MemRead(entry.memory, entry.program_counter)
         q == (entry.program_counter + 1) % 65536
         signed == IF d > 127 THEN d - 256 ELSE d
     IN /\ result = "Ok"
        /\ program_counter = IF BranchTaken(opcode, entry.status_register)
                             THEN (q + signed) % 65536 ELSE q
        /\ RegistersAsEntered
        /\ memory = entry.memory

\* BNE at 0xFFFE with displacement -1, taken: the operand is consumed across
\* the top of the address space and the branch goes back over it
C6_Witness ==
  /\ opcode = \hD0
  /\ result = "Ok"
  /\ entry.program_counter = \hFFFF
  /\ MemRead(entry.memory, \hFFFF) = \hFF
  /\ program_counter = \hFFFF

\* C7: zero page,X / zero page,Y / (indirect,X) form their address as
\* (base + index) mod 256 and never fault, in the loads and in the stores.
C7_ZeroPageIndexedWraps ==
  (Dispatched /\ opcode \in {\hB5, \hB4, \hB6, \hA1, \h95, \h94, \h96, \h81})
  => LET base == MemRead(entry.memory, entry.program_counter)
         zx == (base + entry.x_index) % 256
         zy == (base + entry.y_index) % 256
         pointer == MemRead(entry.memory, zx)
                    + 256 * MemRead(entry.memory, (zx + 1) % 65536)
     IN /\ result = "Ok"
        /\ opcode = \hB5 => accumulator = MemRead(entry.memory, zx)
        /\ opcode = \hB4 => y_index = MemRead(entry.memory, zx)
        /\ opcode = \hB6 => x_index = MemRead(entry.memory, zy)
        /\ opcode = \hA1 => accumulator = MemRead(entry.memory, pointer)
        /\ opcode = \h95 => memory = MemWrite(entry.memory, zx, entry.accumulator)
        /\ opcode = \h94 => memory = MemWrite(entry.memory, zx, entry.y_index)
        /\ opcode = \h96 => memory = MemWrite(entry.memory, zy, entry.x_index)
        /\ opcode = \h81 => memory = MemWrite(entry.memory, pointer, entry.accumulator)

\* the entries of m whose start is at or below address a
Qualifying(m, a) == {i \in 1..Len(m): m[i].start <= a}

Greatest(S) == CHOOSE i \in S: \A j \in S: j <= i

Accessed == bus.op \in {"read", "write"}

\* what the router's access observably did at the entry i it went to
DelegatedTo(i) ==
  /\ bus.selected = i
  /\ bus.offset = bus.address - bus.before[i].start
  /\ bus.op = "read" =>
       bus.returned = IF bus.before[i].store.kind = "ram"
                      THEN MemRead(bus.before[i].store.cells, bus.offset) ELSE 0
  /\ (bus.op = "write" /\ bus.before[i].store.kind = "ram") =>
       mapping[i].store.cells = MemWrite(bus.before[i].store.cells, bus.offset, bus.value)

\* C8 as amended: read(a) and write(a, v) delegate to the entry declared
\* last among those with start <= a, at offset a - start.
C8_DelegatesToLastQualifying ==
  (Accessed /\ Qualifying(bus.before, bus.address) # {})
  => DelegatedTo(Greatest(Qualifying(bus.before, bus.address)))

\* C8 as claimed: in any declaration order the access goes to the entry with
\* the highest start <= a.
C8_DelegatesToHighestStart ==
  (Accessed /\ Qualifying(bus.before, bus.address) # {})
  => \E i \in Qualifying(bus.before, bus.address):
       /\ \A j \in Qualifying(bus.before, bus.address):
            bus.before[j].start <= bus.before[i].start
       /\ bus.offset = bus.address - bus.before[i].start
       /\ bus.before[bus.selected].start = bus.before[i].start

\* two regions declared in descending order, an address both qualify for
C8_Witness ==
  /\ bus.op = "read"
  /\ Len(bus.before) = 2
  /\ bus.before[1].start = \h8000
  /\ bus.before[2].start = \h0000
  /\ bus.address = \h8000
  /\ bus.selected = 2
  /\ bus.offset = \h8000

\* C9: no access fails; when no entry has start <= a a read returns 0 and a
\* write changes no store; a null store reads as 0 and holds nothing whatever
\* was written, ticked or reset.
C9_BusAccessesTotal ==
  /\ ~bus.failed
  /\ (Accessed /\ Qualifying(bus.before, bus.address) = {})
       => (bus.selected = 0 /\ bus.returned = 0 /\ mapping = bus.before)
  /\ (bus.op = "read" /\ bus.selected # 0
        /\ bus.before[bus.selected].store.kind = "null") => bus.returned = 0
  /\ \A i \in 1..Len(mapping):
       mapping[i].store.kind = "null" => mapping[i].store.cells = <<>>

\* a write below every declared start, with a plain store attached
C9_Witness ==
  /\ bus.op = "write"
  /\ bus.address = \h3FFF
  /\ Len(bus.before) = 2
  /\ bus.before[1].store.kind = "ram"
  /\ Qualifying(bus.before, bus.address) = {}
  /\ mapping = bus.before

\* C10: the reserved bit of the status byte always reads as set, and the byte
\* PHP pushes has it set.
C10_ReservedBitSet ==
  /\ Bit(status_register, 5) = 1
  /\ (opcode = \h08 /\ result = "Ok")
       => Bit(StackSlot(System, entry.stack_pointer, 0), 5) = 1

\* the resolved address of the memory operand of a step or shift opcode:
\* zero page, zero page,X, absolute or absolute,X by the opcode's low five bits
OperandAddress(op) ==
  LET lo == MemRead(entry.memory, entry.program_counter)
      hi == MemRead(entry.memory, (entry.program_counter + 1) % 65536)
  IN CASE op % 32 = \h06 -> lo
       [] op % 32 = \h16 -> (lo + entry.x_index) % 256
       [] op % 32 = \h0E -> lo + 256 * hi
       [] op % 32 = \h1E -> (lo + 256 * hi + entry.x_index) % 65536

\* NZ of the status byte are those of the 8-bit value v
FlagsFrom(v) ==
  /\ Bit(status_register, 1) = (IF v = 0 THEN 1 ELSE 0)
  /\ Bit(status_register, 7) = Bit(v, 7)

\* C11: INC/DEC/INX/INY/DEX/DEY never fault and leave (value +/- 1) mod 256,
\* with Zero and Negative from that result; the memory forms write it back to
\* the resolved address.
C11_StepWraps ==
  (Dispatched /\ opcode \in INC_OPCODES \cup DEC_OPCODES \cup STEP_OPCODES)
  => LET d == IF opcode \in INC_OPCODES \cup {\hE8, \hC8} THEN 1 ELSE -1
         address == OperandAddress(opcode)
         value == CASE opcode \in {\hE8, \hCA} -> entry.x_index
                    [] opcode \in {\hC8, \h88} -> entry.y_index
                    [] OTHER -> MemRead(entry.memory, address)
         res == (value + d) % 256
     IN /\ result = "Ok"
        /\ FlagsFrom(res)
        /\ opcode \in {\hE8, \hCA} => x_index = res
        /\ opcode \in {\hC8, \h88} => y_index = res
        /\ opcode \in INC_OPCODES \cup DEC_OPCODES
             => memory = MemWrite(entry.memory, address, res)

\* the byte a value-producing addressing mode resolves to, with every index
\* addition wrapping: (base + index) mod 256 in the zero page, mod 65536 beyond
OperandValue(op) ==
  LET lo == MemRead(entry.memory, entry.program_counter)
      hi == MemRead(entry.memory, (entry.program_counter + 1) % 65536)
      word == lo + 256 * hi
      zx == (lo + entry.x_index) % 256
      at(a) == MemRead(entry.memory, a)
      word_at(a) == at(a) + 256 * at((a + 1) % 65536)
  IN CASE op % 32 \in {\h00, \h02, \h09} -> lo
       [] op % 32 = \h01 -> at(word_at(zx))
       [] op % 32 \in {\h04, \h05} -> at(lo)
       [] op % 32 \in {\h0C, \h0D, \h0E} -> at(word)
       [] op % 32 = \h11 -> at((word_at(lo) + entry.y_index) % 65536)
       [] op % 32 \in {\h14, \h15} -> at(zx)
       [] op % 32 = \h16 -> at((lo + entry.y_index) % 256)
       [] op % 32 \in {\h19, \h1E} -> at((word + entry.y_index) % 65536)
       [] op % 32 \in {\h1C, \h1D} -> at((word + entry.x_index) % 65536)

\* C12: CMP/CPX/CPY leave the accumulator, X, Y, the stack pointer and memory
\* as they were; once the operand v is resolved, Carry is set iff r >= v and
\* Zero/Negative are those of (r - v) mod 256, no other flag changing; with an
\* immediate, zero-page or absolute operand the compare always completes.
C12_CompareKeepsRegisters ==
  (Dispatched /\ opcode \in CMP_OPCODES \cup CPX_OPCODES \cup CPY_OPCODES)
  => LET r == CASE opcode \in CMP_OPCODES -> entry.accumulator
                [] opcode \in CPX_OPCODES -> entry.x_index
                [] opcode \in CPY_OPCODES -> entry.y_index
         v == OperandValue(opcode)
     IN /\ accumulator = entry.accumulator
        /\ x_index = entry.x_index
        /\ y_index = entry.y_index
        /\ stack_pointer = entry.stack_pointer
        /\ memory = entry.memory
        /\ opcode % 32 \in {\h00, \h04, \h05, \h09, \h0C, \h0D} => result = "Ok"
        /\ result = "Ok" =>
             /\ Bit(status_register, 0) = (IF r >= v THEN 1 ELSE 0)
             /\ FlagsFrom((r - v) % 256)
             /\ \A k \in 2..6: Bit(status_register, k) = Bit(entry.status_register, k)

\* accumulator 0x10 compared with the immediate 0x20: Carry clear, Negative
\* set (difference 0xF0), the accumulator still 0x10
C12_Witness ==
  /\ opcode = \hC9
  /\ result = "Ok"
  /\ entry.accumulator = \h10
  /\ MemRead(entry.memory, entry.program_counter) = \h20
  /\ accumulator = \h10
  /\ Bit(status_register, 0) = 0
  /\ Bit(status_register, 7) = 1

\* C13: a call of tick fetches the one opcode at the program counter and
\* executes it once: it returns exactly what execute returned for that opcode
\* (failure iff execute failed, as for every byte no arm names) and leaves
\* the machine as that one execute left it.
C13_TickSurfacesFault ==
  [][(steps' = steps + 1 /\ last_call' = "tick")
       => /\ opcode' = MemRead(memory, program_counter)
          /\ entry'.program_counter = (program_counter + 1) % 65536
          /\ (result' = "Err") <=> (execute(entry', opcode').result = "Err")
          /\ (opcode' \notin RecognizedOpcodes) => result' = "Err"
          /\ System' = execute(entry', opcode')]_vars

\* the second call of tick after the first one failed on the byte 0xFF: the
\* failure did not stop the driver, and the next opcode ran
C13_Witness ==
  /\ steps = 2
  /\ last_call = "tick"
  /\ entry.result = "Err"
  /\ opcode = NOP_OPCODE
  /\ result = "Ok"

\* C14: reset loads the program counter with the word stored at the reset
\* vector, sets the interrupt-disable flag and resets the address space; the
\* tick that follows executes the opcode at that address.
C14_ResetThenTick ==
  [][/\ (steps' = steps + 1 /\ last_call' = "reset")
          => /\ program_counter' = MemRead(memory, RESET_VECTOR)
                                   + 256 * MemRead(memory, RESET_VECTOR + 1)
             /\ Bit(status_register', 2) = 1
             /\ memory_resets' = memory_resets + 1
             /\ memory' = memory
     /\ (steps' = steps /\ last_call = "reset")
          => program_counter' = program_counter
     /\ (steps' = steps + 1 /\ last_call = "reset" /\ last_call' = "tick")
          => /\ opcode' = MemRead(memory, program_counter)
             /\ entry'.program_counter = (program_counter + 1) % 65536
             /\ entry'.memory_resets >= 1]_vars

\* reset as the first call, with the vector holding 0x1034, then a tick that
\* executed the NOP placed there
C14_Witness ==
  /\ steps = 2
  /\ last_call = "tick"
  /\ memory_resets = 2
  /\ MemRead(memory, RESET_VECTOR) = \h34
  /\ opcode = NOP_OPCODE
  /\ entry.program_counter = \h1035
  /\ Bit(status_register, 2) = 1

\* C15: JSR pushes the address of its own last byte (p + 2 for a JSR at p),
\* high byte first and low byte second, and then loads the program counter
\* with the absolute target it fetched.
C15_JsrPushesReturnAddress ==
  (Dispatched /\ opcode = JSR_OPCODE)
  => LET last == (entry.program_counter + 1) % 65536
         target == MemRead(entry.memory, entry.program_counter)
                   + 256 * MemRead(entry.memory, (entry.program_counter + 1) % 65536)
     IN /\ result = "Ok"
        /\ stack_pointer = (entry.stack_pointer - 2) % 256
        /\ StackSlot(System, entry.stack_pointer, 0) = last \div 256
        /\ StackSlot(System, entry.stack_pointer, 1) = last % 256
        /\ program_counter = target

\* C16: ASL/LSR/ROL/ROR on operand v with old Carry c always complete; Carry
\* becomes bit 7 of v (ASL, ROL) or bit 0 (LSR, ROR); the result is
\* (2v) mod 256, v div 2, ((2v) mod 256) | c, (v div 2) | (c << 7); Zero and
\* Negative are those of the result and no other flag changes; the accumulator
\* form writes the accumulator and no memory, a memory form writes the
\* resolved address and not the accumulator.
C16_ShiftsAndRotates ==
  (Dispatched /\ opcode \in ASL_OPCODES \cup LSR_OPCODES \cup ROL_OPCODES \cup ROR_OPCODES)
  => LET in_place == opcode % 32 = \h0A
         address == OperandAddress(opcode)
         v == IF in_place THEN entry.accumulator ELSE MemRead(entry.memory, address)
         c == Bit(entry.status_register, 0)
         res == CASE opcode \in ASL_OPCODES -> (2 * v) % 256
                  [] opcode \in LSR_OPCODES -> v \div 2
                  [] opcode \in ROL_OPCODES -> ((2 * v) % 256) + c
                  [] opcode \in ROR_OPCODES -> (v \div 2) + 128 * c
     IN /\ result = "Ok"
        /\ Bit(status_register, 0)
             = (IF opcode \in ASL_OPCODES \cup ROL_OPCODES THEN Bit(v, 7) ELSE Bit(v, 0))
        /\ FlagsFrom(res)
        /\ \A k \in 2..6: Bit(status_register, k) = Bit(entry.status_register, k)
        /\ x_index = entry.x_index
        /\ y_index = entry.y_index
        /\ stack_pointer = entry.stack_pointer
        /\ in_place => (accumulator = res /\ memory = entry.memory)
        /\ ~in_place => /\ memory = MemWrite(entry.memory, address, res)
                        /\ accumulator = entry.accumulator

\* ROL of the zero-page cell holding 0x80 with Carry set: the cell becomes
\* 0x01, Carry stays set (bit 7 went out), the accumulator keeps 0x7F
C16_Witness ==
  /\ opcode = \h26
  /\ result = "Ok"
  /\ MemRead(entry.memory, entry.program_counter) = \h80
  /\ MemRead(entry.memory, \h80) = \h80
  /\ Bit(entry.status_register, 0) = 1
  /\ MemRead(memory, \h80) = \h01
  /\ Bit(status_register, 0) = 1
  /\ accumulator = \h7F

\* the bit of the status byte a flag instruction names
FlagBitOf(op) ==
  CASE op \in {\h18, \h38} -> 0
    [] op \in {\hD8, \hF8} -> 3
    [] op \in {\h58, \h78} -> 2
    [] op = \hB8 -> 6

\* C17: CLC/CLD/CLI/CLV clear and SEC/SED/SEI set exactly the flag they name:
\* every other status bit, the accumulator, X, Y, the stack pointer, the
\* program counter past the opcode and all memory stay as they were; NOP
\* changes nothing.
C17_FlagInstructions ==
  (Dispatched /\ opcode \in CLEAR_OPCODES \cup SET_OPCODES \cup {NOP_OPCODE})
  => /\ result = "Ok"
     /\ accumulator = entry.accumulator
     /\ x_index = entry.x_index
     /\ y_index = entry.y_index
     /\ stack_pointer = entry.stack_pointer
     /\ program_counter = entry.program_counter
     /\ memory = entry.memory
     /\ opcode = NOP_OPCODE => status_register = entry.status_register
     /\ opcode # NOP_OPCODE =>
          /\ Bit(status_register, FlagBitOf(opcode))
               = (IF opcode \in SET_OPCODES THEN 1 ELSE 0)
          /\ \A k \in (0..7) \ {FlagBitOf(opcode)}:
               Bit(status_register, k) = Bit(entry.status_register, k)

\* SED over an all-clear status byte: only the Decimal bit is set afterwards
C17_Witness ==
  /\ opcode = \hF8
  /\ result = "Ok"
  /\ entry.status_register = \h00
  /\ status_register = \h08

\* C18: absolute,X / absolute,Y / (indirect),Y form their address as
\* (base + index) mod 65536 and never fault, in the loads and in STA.
C18_AbsoluteIndexedWraps ==
  (Dispatched /\ opcode \in {\hBD, \hB9, \hBE, \hBC, \hB1, \h9D, \h99, \h91})
  => LET lo == MemRead(entry.memory, entry.program_counter)
         hi == MemRead(entry.memory, (entry.program_counter + 1) % 65536)
         ax == (lo + 256 * hi + entry.x_index) % 65536
         ay == (lo + 256 * hi + entry.y_index) % 65536
         pointer == MemRead(entry.memory, lo)
                    + 256 * MemRead(entry.memory, (lo + 1) % 65536)
         iy == (pointer + entry.y_index) % 65536
     IN /\ result = "Ok"
        /\ opcode = \hBD => accumulator = MemRead(entry.memory, ax)
        /\ opcode = \hB9 => accumulator = MemRead(entry.memory, ay)
        /\ opcode = \hBE => x_index = MemRead(entry.memory, ay)
        /\ opcode = \hBC => y_index = MemRead(entry.memory, ax)
        /\ opcode = \hB1 => accumulator = MemRead(entry.memory, iy)
        /\ opcode = \h9D => memory = MemWrite(entry.memory, ax, entry.accumulator)
        /\ opcode = \h99 => memory = MemWrite(entry.memory, ay, entry.accumulator)
        /\ opcode = \h91 => memory = MemWrite(entry.memory, iy, entry.accumulator)

\* C19: a tick() or reset() on the router reaches every attached store once,
\* in declaration order, whether or not a read or write could ever select it:
\* each store's count of that call goes up by one and nothing else about the
\* mapping changes.
C19_FanOutInOrder ==
  (bus.op \in {"tick", "reset"})
  => /\ bus.delivered = [i \in 1..Len(bus.before) |-> i]
     /\ Len(mapping) = Len(bus.before)
     /\ \A i \in 1..Len(mapping):
          /\ mapping[i].start = bus.before[i].start
          /\ mapping[i].store =
               IF bus.op = "tick"
               THEN [bus.before[i].store EXCEPT !.ticks = @ + 1]
               ELSE [bus.before[i].store EXCEPT !.resets = @ + 1]

\* two stores attached at the same start, so that no address selects the
\* first: the second tick() on the router has reached both, the first first
C19_Witness ==
  /\ bus.op = "tick"
  /\ Len(mapping) = 2
  /\ mapping[1].start = mapping[2].start
  /\ \A a \in BusAddresses: branch_select(mapping, a).memory # 1
  /\ bus.delivered = <<1, 2>>
  /\ mapping[1].store.ticks = 2
  /\ mapping[2].store.ticks = 2

\* the number of operand bytes the addressing mode of a load opcode takes
OperandLength(op) == IF op % 32 \in {\h0C, \h0D, \h0E, \h19, \h1C, \h1D, \h1E} THEN 2 ELSE 1

\* C20: fetch returns the byte at the program counter and advances it by 1,
\* fetch_word the little-endian word and advances it by 2; every
\* value-producing addressing mode (here through the loads) takes exactly its
\* operand length, the program counter wrapping mod 65536, and none fails.
C20_FetchConsumesOperand ==
  /\ (Dispatched /\ opcode \in LDA_OPCODES \cup LDX_OPCODES \cup LDY_OPCODES)
       => /\ result = "Ok"
          /\ program_counter = (entry.program_counter + OperandLength(opcode)) % 65536
          /\ opcode = \hA9 => accumulator = MemRead(entry.memory, entry.program_counter)
  /\ (Dispatched /\ opcode = \h4C)
       => /\ result = "Ok"
          /\ program_counter
               = MemRead(entry.memory, entry.program_counter)
                 + 256 * MemRead(entry.memory, (entry.program_counter + 1) % 65536)

\* C21: a write(a, v) that selects a plain store changes that store at the
\* one offset it was delegated with and nothing else in the mapping, and a
\* read(a) made right after it selects the same entry and offset and returns v.
C21_WriteThenRead ==
  [][/\ (steps' = steps + 1 /\ bus'.op = "write" /\ bus'.selected # 0
           /\ mapping[bus'.selected].store.kind = "ram")
          => /\ Len(mapping') = Len(mapping)
             /\ \A i \in 1..Len(mapping):
                  /\ mapping'[i].start = mapping[i].start
                  /\ i # bus'.selected => mapping'[i] = mapping[i]
             /\ mapping'[bus'.selected].store
                  = [mapping[bus'.selected].store EXCEPT
                       !.cells = MemWrite(@, bus'.offset, bus'.value)]
     /\ (steps' = steps + 1 /\ bus.op = "write" /\ bus'.op = "read"
           /\ bus'.address = bus.address /\ bus.selected # 0
           /\ mapping[bus.selected].store.kind = "ram")
          => /\ bus'.selected = bus.selected
             /\ bus'.offset = bus.offset
             /\ bus'.returned = bus.value
             /\ ~bus'.failed]_vars

\* a plain store at 0x0000 and another declared after it at 0x8000: 0xA5
\* written at 0xFFFF is read back from the second store's offset 0x7FFF, and
\* the first store holds nothing
C21_Witness ==
  /\ steps = 2
  /\ bus.op = "read"
  /\ bus.address = \hFFFF
  /\ Len(mapping) = 2
  /\ mapping[1].start = \h0000
  /\ mapping[1].store.kind = "ram"
  /\ mapping[2].start = \h8000
  /\ mapping[2].store.kind = "ram"
  /\ bus.selected = 2
  /\ bus.offset = \h7FFF
  /\ bus.returned = \hA5
  /\ mapping[1].store.cells = <<>>
  /\ mapping[2].store.cells = (\h7FFF :> \hA5)

====
